---- MODULE Spec2Model ----
(***************************************************************************)
(* A model of TaobaoLiveWebFetcher (src/liveMan.py): the connection        *)
(* supervisor thread (_run_connection_loop, which also runs the comment    *)
(* poll loop _listen_comments), the heartbeat threads (_sendHeartbeat),    *)
(* the message router (_process_message) and the chat/gift text helpers.   *)
(*                                                                         *)
(* Text is modelled as a sequence of characters.  The Chinese characters   *)
(* of the source are written in pinyin, one string per character:          *)
(*   "song","chu","le" = U+9001 U+51FA U+4E86   "da","shang" = U+6253 U+8D4F*)
(*   "li","wu" = U+793C U+7269   "xiao","xin" = U+5C0F U+5FC3              *)
(*   "bang","tang" = U+68D2 U+7CD6   "wei","zhi" = U+672A U+77E5           *)
(*   "ni","ming" = U+533F U+540D                                           *)
(***************************************************************************)
EXTENDS Integers, Sequences, FiniteSets, TLC

(***************************************************************************)
(* Bounds of the model.                                                    *)
(***************************************************************************)
\* heartbeat threads (sessions) the supervisor may spawn
MaxSessions == 2
\* consecutive failed reconnect attempts that are counted
MaxFails == 6
\* comment records in one comment-fetch response
MaxComments == 1
\* seconds the clock advances in one Tick
TickSeconds == 10
\* characters after the keyword in a generated comment text
MaxLen == 3
\* comment records in one laid-down response
MaxRecords == 2
\* parts laid out in one frame
MaxParts == 3
\* last value of the clock where the clock itself is followed
MaxNow == 2
\* elements in the timestampList of a laid-down heartbeat answer
MaxStamps == 2

(***************************************************************************)
(* Program constants.                                                      *)
(***************************************************************************)
InitialReconnectDelay == 1
MaxReconnectDelay == 60
NoMessageTimeout == 30
DefaultDelayMs == 6000
SubTypeChat == 10001
SubTypeGift == 10002

Min(a, b) == IF a <= b THEN a ELSE b

(***************************************************************************)
(* Python dict access: d.get(k, default) and  k in d.                      *)
(***************************************************************************)
Has(d, k) == k \in DOMAIN d
Get(d, k, default) == IF k \in DOMAIN d THEN d[k] ELSE default

(***************************************************************************)
(* Text helpers (str methods and the re calls of _extract_gift_info).      *)
(***************************************************************************)
Digits == {"0", "1", "2", "3", "4", "5", "6", "7", "8", "9"}
Whitespace == {" "}

DigitValue(c) ==
  CASE c = "0" -> 0 [] c = "1" -> 1 [] c = "2" -> 2 [] c = "3" -> 3
    [] c = "4" -> 4 [] c = "5" -> 5 [] c = "6" -> 6 [] c = "7" -> 7
    [] c = "8" -> 8 [] c = "9" -> 9

\* keyword in content
Contains(s, k) ==
  \E i \in 1..(Len(s) - Len(k) + 1) : SubSeq(s, i, i + Len(k) - 1) = k

\* s.find(k): the first index at which k occurs in s, 0 when it does not
Find(s, k) ==
  IF Contains(s, k)
    THEN CHOOSE i \in 1..(Len(s) - Len(k) + 1) :
           /\ SubSeq(s, i, i + Len(k) - 1) = k
           /\ \A j \in 1..(i - 1) : SubSeq(s, j, j + Len(k) - 1) # k
    ELSE 0

\* s.split(k): the pieces of s between the non-overlapping occurrences of k
RECURSIVE Split(_, _)
Split(s, k) ==
  IF Find(s, k) = 0
    THEN <<s>>
    ELSE <<SubSeq(s, 1, Find(s, k) - 1)>>
           \o Split(SubSeq(s, Find(s, k) + Len(k), Len(s)), k)

\* s.strip()
RECURSIVE Strip(_)
Strip(s) ==
  IF s = <<>> THEN s
  ELSE IF Head(s) \in Whitespace THEN Strip(Tail(s))
  ELSE IF s[Len(s)] \in Whitespace THEN Strip(SubSeq(s, 1, Len(s) - 1))
  ELSE s

\* re.sub(r'\d+', '', s)
RemoveDigits(s) == SelectSeq(s, LAMBDA c : c \notin Digits)

\* re.search(r'(\d+)', s): the leftmost maximal run of digits, <<>> when none
RECURSIVE DigitPrefix(_)
DigitPrefix(s) ==
  IF s # <<>> /\ Head(s) \in Digits
    THEN <<Head(s)>> \o DigitPrefix(Tail(s))
    ELSE <<>>

RECURSIVE FirstDigitRun(_)
FirstDigitRun(s) ==
  IF s = <<>> THEN <<>>
  ELSE IF Head(s) \in Digits THEN DigitPrefix(s)
  ELSE FirstDigitRun(Tail(s))

\* int(run) for a run of decimal digits
RECURSIVE ToInt(_)
ToInt(run) ==
  IF run = <<>> THEN 0
  ELSE 10 * ToInt(SubSeq(run, 1, Len(run) - 1)) + DigitValue(run[Len(run)])

(***************************************************************************)
(* _is_gift_message and _extract_gift_info.                                *)
(***************************************************************************)
SongChuLe == <<"song", "chu", "le">>
UnknownGift == <<"wei", "zhi", "li", "wu">>
Anonymous == <<"ni", "ming">>

gift_keywords ==
  { SongChuLe, <<"da", "shang", "le">>, <<"li", "wu">>,
    <<"xiao", "xin", "xin">>, <<"bang", "bang", "tang">> }

IsGiftMessage(content) == \E keyword \in gift_keywords : Contains(content, keyword)

ExtractGiftInfo(content) ==
  IF Contains(content, SongChuLe) /\ Len(Split(content, SongChuLe)) > 1
    THEN LET gift_info == Strip(Split(content, SongChuLe)[2])
             run == FirstDigitRun(gift_info)
         IN [ gift_name |-> Strip(RemoveDigits(gift_info)),
              gift_count |-> IF run # <<>> THEN ToInt(run) ELSE 1 ]
    ELSE [ gift_name |-> UnknownGift, gift_count |-> 1 ]

(***************************************************************************)
(* The message handlers.  Each returns the sequence of events it prints    *)
(* (one formatted line per event); <<>> when it prints nothing.            *)
(***************************************************************************)
Zero == <<"0">>

\* _parseChatMsg
ParseChatMsg(payload) ==
  LET fromComments == Has(payload, "publisherNick")
      nick == IF fromComments THEN Get(payload, "publisherNick", Anonymous)
                              ELSE Get(payload, "nick", Anonymous)
      user_id == IF fromComments THEN Get(payload, "publisherId", Zero)
                 ELSE Get(payload, "userid", Get(payload, "userId", Zero))
      content == IF fromComments THEN Get(payload, "content", <<>>)
                 ELSE Get(payload, "content", Get(payload, "text", <<>>))
  IN IF content # <<>> /\ ~IsGiftMessage(content)
       THEN << [ type |-> "Chat", userId |-> user_id, userName |-> nick,
                 content |-> content ] >>
       ELSE <<>>

\* _parseGiftMsg, for a dict payload
ParseGiftMsg(payload) ==
  << [ type |-> "Gift",
       userName |-> Get(payload, "nick", Get(payload, "userName", Anonymous)),
       giftName |-> Get(payload, "giftName", Get(payload, "itemName", UnknownGift)),
       count |-> Get(payload, "count", Get(payload, "num", 1)) ] >>

\* _parseLikeMsg
ParseLikeMsg(payload) ==
  IF Has(payload, "value")
    THEN << [ type |-> "Like", userName |-> Anonymous,
              count |-> Get(payload["value"], "dig", 1) ] >>
    ELSE << [ type |-> "Like", userName |-> Get(payload, "nick", Anonymous),
              count |-> Get(payload, "count", 1) ] >>

\* _safe_int_convert, for a str value
SafeIntConvert(value) ==
  IF value # <<>> /\ \A i \in 1..Len(value) : value[i] \in Digits
    THEN ToInt(value)
    ELSE 0

\* _parseMemberMsg
ParseMemberMsg(payload) ==
  LET identify == Get(payload, "identify", <<>>)
      is_vip == Get(identify, "VIP_USER", "0") = "1"
      is_member == Get(payload, "isMember", "false") = "true"
      \* the default 0 converts to 0
      fan_level == IF Has(identify, "fanLevel")
                     THEN SafeIntConvert(identify["fanLevel"])
                     ELSE 0
      badges == (IF is_vip THEN << [ badge |-> "VIP", level |-> 0 ] >> ELSE <<>>)
                \o (IF is_member THEN << [ badge |-> "member", level |-> 0 ] >> ELSE <<>>)
                \o (IF fan_level > 0 THEN << [ badge |-> "fan", level |-> fan_level ] >>
                                      ELSE <<>>)
  IN << [ type |-> "MemberJoin",
          userId |-> Get(payload, "userid", Get(payload, "userId", Zero)),
          userName |-> Get(payload, "nick", Anonymous),
          badges |-> badges ] >>

\* _parseRoomUserSeqMsg
ParseRoomUserSeqMsg(payload) ==
  << [ type |-> "Stats",
       currentViewers |-> Get(payload, "onlineCount", Get(payload, "current_viewers", 0)),
       totalViewers |-> Get(payload, "totalCount", Get(payload, "total_viewers", 0)) ] >>

(***************************************************************************)
(* _process_message: the handler chosen for a decoded object (a dict), and *)
(* the events it prints.  The "value" of an object is a dict or a JSON     *)
(* number; the number n is written [ number |-> n ], a key no dict of the  *)
(* inputs has.                                                             *)
(***************************************************************************)
JsonNumberValue(n) == [ number |-> n ]
IsNumber(v) == Has(v, "number")

\* the if / elif chain; 'dig' in json_obj.get('value', {}) is a membership
\* test on a dict and raises TypeError on a number, which the except clause
\* of _process_message swallows: no handler runs
Handler(json_obj) ==
  IF Has(json_obj, "viewCountFormat") \/ Has(json_obj, "pageViewCount")
    THEN "RoomUserSeq"
  ELSE IF Has(json_obj, "nick")
          /\ (Has(json_obj, "flowSourceText") \/ Has(json_obj, "subType"))
    THEN "Member"
  ELSE IF Has(json_obj, "value") /\ IsNumber(json_obj["value"])
    THEN "TypeError"
  ELSE IF Has(json_obj, "value") /\ Has(json_obj["value"], "dig")
    THEN "Like"
  ELSE IF Has(json_obj, "subType")
    THEN IF json_obj["subType"] = SubTypeChat THEN "Chat"
         ELSE IF json_obj["subType"] = SubTypeGift THEN "Gift"
         ELSE "None"
  ELSE "None"

ProcessMessage(json_obj) ==
  CASE Handler(json_obj) = "RoomUserSeq" -> ParseRoomUserSeqMsg(json_obj)
    [] Handler(json_obj) = "Member" -> ParseMemberMsg(json_obj)
    [] Handler(json_obj) = "Like" -> ParseLikeMsg(json_obj)
    [] Handler(json_obj) = "Chat" -> ParseChatMsg(json_obj)
    [] Handler(json_obj) = "Gift" -> ParseGiftMsg(json_obj)
    [] OTHER -> <<>>

(***************************************************************************)
(* State.                                                                  *)
(***************************************************************************)
VARIABLES
  stopEvent,        \* _stop_event is set
  supPc,            \* where the connection thread (_run_connection_loop) is
  reconnectDelay,   \* _reconnect_delay, seconds
  waitDur,          \* timeout handed to the current/last wait of _handle_reconnect
  topic,            \* self.topic: 0 is None, n the topic of the n-th bootstrap
  session,          \* self.session: 0 is None, n the Session of the n-th bootstrap
  sessionCookies,   \* self.session.cookies: 0 is none, n those of the n-th bootstrap
  paginationCtx,    \* _pagination_ctx
  sinceLastMessage, \* seconds since _last_message_time (saturates once stale)
  pollRemaining,    \* iterations left in the sleep loop of _listen_comments
  pollRes,          \* outcome of the last comment fetch
  sink,             \* events printed by the last comment-fetch cycle
  pollReq,          \* payload of the comment request in flight (<<>>: none)
  pollSlept,        \* time.sleep(1) calls completed by the sleep loop under way
  nSessions,        \* heartbeat threads started so far
  hb,               \* the heartbeat threads, by session number
  hbOffset,         \* offset of each heartbeat thread ("none" before it is seeded)
  hbReq,            \* offset in the request each thread has in flight ("none": no request)
  firstAttempt,     \* history: no reconnect wait has happened yet
  consecFailed,     \* history: consecutive failed reconnect attempts
  reachedRunning,   \* history: the current/last attempt started both loops
  now,              \* time.time(), in the runs that follow the clock itself
  lastMessageTime,  \* _last_message_time as a point of that clock
  connClock,        \* time.time() value the connection thread is about to store
  hbClock,          \* the same for each heartbeat thread (-1: none)
  msgIn,            \* input of the handler under test (router/chat harness)
  msgOut,           \* events printed by the handler under test
  msgPc,            \* "idle"; "object", "comment" or "frame" awaiting its handler; "done";
                    \* "transport": msgIn is what the comment endpoint will answer;
                    \* "heartbeat": what the heartbeat endpoint will answer
  served            \* answers of msgIn handed out so far by that endpoint

pollData == << pollReq, pollSlept >>
hbData == << hbOffset, hbReq >>
clockVars == << now, lastMessageTime, connClock, hbClock >>
sysVars ==
  << stopEvent, supPc, reconnectDelay, waitDur, topic, session, sessionCookies,
     paginationCtx,
     sinceLastMessage, pollRemaining, pollRes, sink, pollReq,
     pollSlept, nSessions, hb, hbData, firstAttempt, consecFailed,
     reachedRunning, clockVars >>
msgVars == << msgIn, msgOut, msgPc, served >>
vars == << sysVars, msgVars >>

Sessions == 1..MaxSessions

HbAlive(i) == hb[i] \in {"Top", "InFlight", "Sleep", "ErrWait"}
PollAlive == supPc \in {"PollTop", "Fetching", "PollSleep"}

(***************************************************************************)
(* What the comment endpoint may answer (fetch_comments returns the parsed *)
(* JSON): an envelope "ret" and a "data" dict with optional fields.        *)
(***************************************************************************)
ServerCursors == {"ctx1"}
ServerDelays == {500, 2500}
SampleComments ==
  { [ publisherNick |-> <<"A">>, publisherId |-> <<"1">>,
      content |-> <<"h", "i">> ],
    [ publisherNick |-> <<"B">>, publisherId |-> <<"2">>,
      content |-> <<"B">> \o SongChuLe \o <<"tang", "5">> ] }

RECURSIVE SeqsUpTo(_, _)
SeqsUpTo(S, n) ==
  IF n = 0 THEN {<<>>}
  ELSE SeqsUpTo(S, n - 1)
         \cup { Append(q, x) : q \in { r \in SeqsUpTo(S, n - 1) : Len(r) = n - 1 },
                               x \in S }

OptionalField(name, values) == {<<>>} \cup { name :> v : v \in values }

CommentData ==
  { p @@ c @@ d : p \in OptionalField("paginationContext", ServerCursors),
                  c \in OptionalField("comments", SeqsUpTo(SampleComments, MaxComments)),
                  d \in OptionalField("delay", ServerDelays) }

SuccessResponses == { [ ret |-> "SUCCESS", data |-> d ] : d \in CommentData }
RejectedResponses == { [ ret |-> "FAIL_SYS_TOKEN_EXOIRED", data |-> <<>> ] }
CommentResponses == SuccessResponses \cup RejectedResponses

RECURSIVE Flatten(_)
Flatten(ss) == IF ss = <<>> THEN <<>> ELSE Head(ss) \o Flatten(Tail(ss))

(***************************************************************************)
(* Init: the object after __init__.                                        *)
(***************************************************************************)
MsgIdle == msgIn = <<>> /\ msgOut = <<>> /\ msgPc = "idle" /\ served = 0

SysInit ==
  /\ stopEvent = FALSE
  /\ supPc = "NotStarted"
  /\ reconnectDelay = InitialReconnectDelay
  /\ waitDur = 0
  /\ topic = 0
  /\ session = 0
  /\ sessionCookies = 0
  /\ paginationCtx = "None"
  /\ sinceLastMessage = 0
  /\ pollRemaining = 0
  /\ pollRes = "none"
  /\ sink = <<>>
  /\ pollReq = <<>>
  /\ pollSlept = 0
  /\ nSessions = 0
  /\ hb = [ i \in Sessions |-> "Unborn" ]
  /\ hbOffset = [ i \in Sessions |-> "none" ]
  /\ hbReq = [ i \in Sessions |-> "none" ]
  /\ firstAttempt = TRUE
  /\ consecFailed = 0
  /\ reachedRunning = FALSE
  /\ now = 0
  /\ lastMessageTime = 0
  /\ connClock = -1
  /\ hbClock = [ i \in Sessions |-> -1 ]

Init == SysInit /\ MsgIdle

(***************************************************************************)
(* The environment: start(), stop() and the passage of time.               *)
(***************************************************************************)
\* start(): clears the flag, resets the delay, starts the connection thread
Start ==
  /\ supPc = "NotStarted"
  /\ stopEvent' = FALSE
  /\ reconnectDelay' = InitialReconnectDelay
  /\ supPc' = "LoopTop"
  /\ UNCHANGED << waitDur, topic, session, sessionCookies, paginationCtx, sinceLastMessage,
                  pollRemaining, pollRes, sink, nSessions, hb, firstAttempt,
                  consecFailed, reachedRunning, pollData, hbData, clockVars, msgVars >>

\* stop(), called after start(): sets the flag (its joins change no state)
Stop ==
  /\ supPc # "NotStarted"
  /\ ~stopEvent
  /\ stopEvent' = TRUE
  /\ UNCHANGED << supPc, reconnectDelay, waitDur, topic, session, sessionCookies, paginationCtx,
                  sinceLastMessage, pollRemaining, pollRes, sink, nSessions, hb,
                  firstAttempt, consecFailed, reachedRunning,
                  pollData, hbData, clockVars, msgVars >>

\* time.time() advances; the age of _last_message_time is kept up to the
\* first value beyond _no_message_timeout
Tick ==
  /\ sinceLastMessage <= NoMessageTimeout
  /\ sinceLastMessage' = sinceLastMessage + TickSeconds
  /\ UNCHANGED << stopEvent, supPc, reconnectDelay, waitDur, topic, session, sessionCookies,
                  paginationCtx, pollRemaining, pollRes, sink, nSessions, hb,
                  firstAttempt, consecFailed, reachedRunning,
                  pollData, hbData, clockVars, msgVars >>

(***************************************************************************)
(* The connection thread: _run_connection_loop, _handle_reconnect,         *)
(* _connect_and_listen and _listen_comments.                               *)
(***************************************************************************)
\* a variant of NextReconnectDelay that forgets the cap
NextReconnectDelayNoCap(d) == d * 2

\* _reconnect_delay after a wait
NextReconnectDelay(d) == Min(d * 2, MaxReconnectDelay)

\* an exception leaves _connect_and_listen: the except branch of
\* _run_connection_loop, and _handle_reconnect up to its wait
RaiseToSupervisor ==
  IF stopEvent
    THEN supPc' = "Stopped" /\ UNCHANGED waitDur
    ELSE supPc' = "ReconnectWait" /\ waitDur' = reconnectDelay

\* while not self._stop_event.is_set(): ... self.get_topic_and_cookies()
SupLoopTop ==
  /\ supPc = "LoopTop"
  /\ supPc' = IF stopEvent THEN "Stopped" ELSE "Bootstrapping"
  /\ reachedRunning' = (stopEvent /\ reachedRunning)
  /\ UNCHANGED << stopEvent, reconnectDelay, waitDur, topic, session, sessionCookies,
                  paginationCtx, sinceLastMessage, pollRemaining, pollRes, sink,
                  nSessions, hb, firstAttempt, consecFailed,
                  pollData, hbData, clockVars, msgVars >>

\* get_topic_and_cookies raises
BootstrapFail ==
  /\ supPc = "Bootstrapping"
  /\ stopEvent \/ firstAttempt \/ consecFailed < MaxFails
  /\ RaiseToSupervisor
  /\ consecFailed' = IF stopEvent \/ firstAttempt THEN consecFailed
                     ELSE consecFailed + 1
  /\ UNCHANGED << stopEvent, reconnectDelay, topic, session, sessionCookies, paginationCtx,
                  sinceLastMessage, pollRemaining, pollRes, sink, nSessions, hb,
                  firstAttempt, reachedRunning, pollData, hbData, clockVars, msgVars >>

\* get_topic_and_cookies returns: self.topic is assigned (cookie_dict too)
BootstrapOk ==
  /\ supPc = "Bootstrapping"
  /\ nSessions < MaxSessions
  /\ topic' = nSessions + 1
  /\ supPc' = "NewSession"
  /\ UNCHANGED << stopEvent, reconnectDelay, waitDur, session, sessionCookies,
                  paginationCtx, sinceLastMessage, pollRemaining, pollRes, sink,
                  nSessions, hb, firstAttempt, consecFailed, reachedRunning,
                  pollData, hbData, clockVars, msgVars >>

\* self.session = requests.Session(): a new object, with no cookies yet
NewSession ==
  /\ supPc = "NewSession"
  /\ session' = nSessions + 1
  /\ sessionCookies' = 0
  /\ supPc' = "UpdateCookies"
  /\ UNCHANGED << stopEvent, reconnectDelay, waitDur, topic, paginationCtx,
                  sinceLastMessage, pollRemaining, pollRes, sink, nSessions, hb,
                  firstAttempt, consecFailed, reachedRunning, pollData,
                  hbData, clockVars, msgVars >>

\* self.session.cookies.update(self.cookie_dict)
UpdateCookies ==
  /\ supPc = "UpdateCookies"
  /\ sessionCookies' = nSessions + 1
  /\ supPc' = "SpawnHeartbeat"
  /\ UNCHANGED << stopEvent, reconnectDelay, waitDur, topic, session,
                  paginationCtx, sinceLastMessage, pollRemaining, pollRes, sink,
                  nSessions, hb, firstAttempt, consecFailed, reachedRunning,
                  pollData, hbData, clockVars, msgVars >>

\* self._heartbeat_thread = threading.Thread(...); .start()
SpawnHeartbeat ==
  /\ supPc = "SpawnHeartbeat"
  /\ nSessions' = nSessions + 1
  /\ hb' = [ hb EXCEPT ![nSessions + 1] = "Top" ]
  /\ supPc' = "ResetState"
  /\ UNCHANGED << stopEvent, reconnectDelay, waitDur, topic, session, sessionCookies,
                  paginationCtx, sinceLastMessage, pollRemaining, pollRes, sink,
                  firstAttempt, consecFailed, reachedRunning,
                  pollData, hbData, clockVars, msgVars >>

\* a variant of ResetState that leaves _reconnect_delay as it is
ResetStateKeepsDelay ==
  /\ supPc = "ResetState"
  /\ sinceLastMessage' = 0
  /\ reachedRunning' = TRUE
  /\ consecFailed' = 0
  /\ supPc' = "PollTop"
  /\ UNCHANGED << stopEvent, reconnectDelay, waitDur, topic, session, sessionCookies,
                  paginationCtx, pollRemaining, pollRes, sink, nSessions, hb,
                  firstAttempt, pollData, hbData, clockVars, msgVars >>

\* self._last_message_time = time.time(); self._reconnect_delay = 1
ResetState ==
  /\ supPc = "ResetState"
  /\ sinceLastMessage' = 0
  /\ reconnectDelay' = InitialReconnectDelay
  /\ reachedRunning' = TRUE
  /\ consecFailed' = 0
  /\ supPc' = "PollTop"
  /\ UNCHANGED << stopEvent, waitDur, topic, session, sessionCookies, paginationCtx,
                  pollRemaining, pollRes, sink, nSessions, hb, firstAttempt,
                  pollData, hbData, clockVars, msgVars >>

\* fetch_comments: the payload of the request, with the cursor when it is set
CommentPayload ==
  [ topic |-> topic ]
    @@ (IF paginationCtx # "None" THEN "paginationContext" :> paginationCtx
        ELSE <<>>)

\* _listen_comments: while not stop: res = self.fetch_comments() (request sent);
\* with the flag set the loop ends and _run_connection_loop breaks
PollTop ==
  /\ supPc = "PollTop"
  /\ IF stopEvent
       THEN supPc' = "Stopped" /\ UNCHANGED << pollRes, sink, pollData >>
       ELSE /\ supPc' = "Fetching"
            /\ pollRes' = "none"
            /\ sink' = <<>>
            /\ pollReq' = CommentPayload
            /\ pollSlept' = 0
  /\ UNCHANGED << stopEvent, reconnectDelay, waitDur, topic, session, sessionCookies,
                  paginationCtx, sinceLastMessage, pollRemaining, nSessions, hb,
                  firstAttempt, consecFailed, reachedRunning,
                  hbData, clockVars, msgVars >>

\* a variant of PollFail that swallows the error and fetches again
PollFailRetries ==
  /\ supPc = "Fetching"
  /\ pollRes' = "error"
  /\ pollReq' = <<>>
  /\ supPc' = "PollTop"
  /\ UNCHANGED << stopEvent, reconnectDelay, waitDur, topic, session, sessionCookies,
                  paginationCtx, sinceLastMessage, pollRemaining, sink,
                  nSessions, hb, firstAttempt, consecFailed, reachedRunning,
                  pollSlept, hbData, clockVars, msgVars >>

\* a variant of PollFail in which the error ends the connection thread
PollFailEndsThread ==
  /\ supPc = "Fetching"
  /\ pollRes' = "error"
  /\ pollReq' = <<>>
  /\ supPc' = "Stopped"
  /\ UNCHANGED << stopEvent, reconnectDelay, waitDur, topic, session, sessionCookies,
                  paginationCtx, sinceLastMessage, pollRemaining, sink,
                  nSessions, hb, firstAttempt, consecFailed, reachedRunning,
                  pollSlept, hbData, clockVars, msgVars >>

\* the request fails (transport error, timeout, body that json.loads rejects):
\* re-raised unless the flag is set, then swallowed
PollFail ==
  /\ supPc = "Fetching"
  /\ pollRes' = "error"
  /\ pollReq' = <<>>
  /\ IF stopEvent
       THEN supPc' = "PollTop" /\ UNCHANGED waitDur
       ELSE RaiseToSupervisor
  /\ UNCHANGED << stopEvent, reconnectDelay, topic, session, sessionCookies, paginationCtx,
                  sinceLastMessage, pollRemaining, sink, nSessions, hb,
                  firstAttempt, consecFailed, reachedRunning,
                  pollSlept, hbData, clockVars, msgVars >>

\* a variant of PollHandle that prints the comments last to first
PollHandleReversed(res) ==
  LET data == Get(res, "data", <<>>)
      comments == Get(data, "comments", <<>>)
      n == Len(comments)
  IN /\ paginationCtx' = Get(data, "paginationContext", "None")
     /\ sinceLastMessage' = IF comments # <<>> THEN 0 ELSE sinceLastMessage
     /\ sink' = Flatten([ i \in 1..n |-> ParseChatMsg(comments[n + 1 - i]) ])
     /\ pollRemaining' = Get(data, "delay", DefaultDelayMs) \div 1000
     /\ pollRes' = IF res.ret = "SUCCESS" THEN "ok" ELSE "rejected"
     /\ pollReq' = <<>>
     /\ pollSlept' = 0
     /\ supPc' = "PollSleep"

\* the body of the try in _listen_comments for a parsed response res
PollHandle(res) ==
  LET data == Get(res, "data", <<>>)
      comments == Get(data, "comments", <<>>)
  IN /\ paginationCtx' = Get(data, "paginationContext", "None")
     /\ sinceLastMessage' = IF comments # <<>> THEN 0 ELSE sinceLastMessage
     /\ sink' = Flatten([ i \in 1..Len(comments) |-> ParseChatMsg(comments[i]) ])
     /\ pollRemaining' = Get(data, "delay", DefaultDelayMs) \div 1000
     /\ pollRes' = IF res.ret = "SUCCESS" THEN "ok" ELSE "rejected"
     /\ pollReq' = <<>>
     /\ pollSlept' = 0
     /\ supPc' = "PollSleep"

\* the request returns a body that parses: any answer of the endpoint, or
\* the next one of msgIn when the answers are laid down in advance
PollResponse ==
  /\ supPc = "Fetching"
  /\ IF msgPc = "transport"
       THEN /\ served < Len(msgIn)
            /\ PollHandle(msgIn[served + 1])
            /\ served' = served + 1
       ELSE /\ \E res \in CommentResponses : PollHandle(res)
            /\ UNCHANGED served
  /\ UNCHANGED << stopEvent, reconnectDelay, waitDur, topic, session, sessionCookies, nSessions,
                  hb, firstAttempt, consecFailed, reachedRunning, hbData, clockVars, msgIn, msgOut,
                  msgPc >>

\* a variant of PollSleepStep that sleeps on without looking at the flag
PollSleepIgnoresStop ==
  /\ supPc = "PollSleep"
  /\ IF pollRemaining = 0
       THEN supPc' = "PollTop" /\ pollSlept' = 0 /\ UNCHANGED pollRemaining
       ELSE /\ supPc' = "PollSleep"
            /\ pollRemaining' = pollRemaining - 1
            /\ pollSlept' = pollSlept + 1
  /\ UNCHANGED << stopEvent, reconnectDelay, waitDur, topic, session, sessionCookies,
                  paginationCtx, sinceLastMessage, pollRes, sink, nSessions, hb,
                  firstAttempt, consecFailed, reachedRunning, pollReq, hbData, clockVars, msgVars >>

\* for _ in range(int(delay)): if stop: break; time.sleep(1)
PollSleepStep ==
  /\ supPc = "PollSleep"
  /\ IF pollRemaining = 0 \/ stopEvent
       THEN supPc' = "PollTop" /\ pollSlept' = 0 /\ UNCHANGED pollRemaining
       ELSE /\ supPc' = "PollSleep"
            /\ pollRemaining' = pollRemaining - 1
            /\ pollSlept' = pollSlept + 1
  /\ UNCHANGED << stopEvent, reconnectDelay, waitDur, topic, session, sessionCookies,
                  paginationCtx, sinceLastMessage, pollRes, sink, nSessions, hb,
                  firstAttempt, consecFailed, reachedRunning,
                  pollReq, hbData, clockVars, msgVars >>

\* self._stop_event.wait(timeout=...) returns (timed out, or woken by the
\* flag); the delay doubles up to the cap
ReconnectWaitEnd ==
  /\ supPc = "ReconnectWait"
  /\ reconnectDelay' = NextReconnectDelay(reconnectDelay)
  /\ firstAttempt' = FALSE
  /\ waitDur' = 0
  /\ supPc' = "LoopTop"
  /\ UNCHANGED << stopEvent, topic, session, sessionCookies, paginationCtx, sinceLastMessage,
                  pollRemaining, pollRes, sink, nSessions, hb, consecFailed,
                  reachedRunning, pollData, hbData, clockVars, msgVars >>

SupNext ==
  \/ SupLoopTop
  \/ BootstrapFail
  \/ BootstrapOk
  \/ NewSession
  \/ UpdateCookies
  \/ SpawnHeartbeat
  \/ ResetState
  \/ PollTop
  \/ PollFail
  \/ PollResponse
  \/ PollSleepStep
  \/ ReconnectWaitEnd

(***************************************************************************)
(* A heartbeat thread: _sendHeartbeat.  A thread is "Top" when started,    *)
(* "InFlight" while its request is out, "Sleep" in the interval wait,      *)
(* "ErrWait" in the wait after a failed cycle, "Done" when it has ended.   *)
(***************************************************************************)
\* the head of an iteration: while not stop; the staleness check (break);
\* otherwise the request is built and sent
HbIterate ==
  IF stopEvent THEN "Done"
  ELSE IF sinceLastMessage > NoMessageTimeout THEN "Done"
  ELSE "InFlight"

\* offset = str(int(time.time() * 1000))
OffsetSeed == "seed"

\* result.get('data', {}).get('timestampList', [])
TimestampsOf(result) == Get(Get(result, "data", <<>>), "timestampList", <<>>)

\* answers of the heartbeat endpoint: an empty timestampList, or one element
HeartbeatAnswers ==
  { [ data |-> [ timestampList |-> tl ] ] : tl \in { <<>>, << <<>> >> } }

\* the request thread i sends, if it sends one: "offset": offset
HbRequest(i, offset) ==
  [ hbReq EXCEPT ![i] = IF HbIterate = "InFlight" THEN offset ELSE "none" ]

\* the thread starts: the offset is seeded, then the first iteration
HbTop(i) ==
  /\ hb[i] = "Top"
  /\ hb' = [ hb EXCEPT ![i] = HbIterate ]
  /\ hbOffset' = [ hbOffset EXCEPT ![i] = OffsetSeed ]
  /\ hbReq' = HbRequest(i, OffsetSeed)
  /\ UNCHANGED << stopEvent, supPc, reconnectDelay, waitDur, topic, session,
                  sessionCookies, paginationCtx, sinceLastMessage,
                  pollRemaining, pollRes, sink, nSessions, firstAttempt,
                  consecFailed, reachedRunning, pollData, clockVars, msgVars >>

\* the request or the parse of its answer raises: break when the flag is
\* set, otherwise self._stop_event.wait(timeout=5)
HbFail(i) ==
  /\ hb[i] = "InFlight"
  /\ hb' = [ hb EXCEPT ![i] = IF stopEvent THEN "Done" ELSE "ErrWait" ]
  /\ hbReq' = [ hbReq EXCEPT ![i] = "none" ]
  /\ UNCHANGED << stopEvent, supPc, reconnectDelay, waitDur, topic, session,
                  sessionCookies, paginationCtx, sinceLastMessage,
                  pollRemaining, pollRes, sink, nSessions, hbOffset,
                  firstAttempt, consecFailed, reachedRunning, pollData,
                  clockVars, msgVars >>

\* a variant of HbHandle that takes the offset of the list's first element
HbHandleFirstElement(i, result) ==
  LET timestamps == TimestampsOf(result)
  IN /\ hbOffset' = [ hbOffset EXCEPT ![i] =
                        IF timestamps # <<>>
                          THEN Get(timestamps[1], "offset", hbOffset[i])
                          ELSE hbOffset[i] ]
     /\ sinceLastMessage' = IF timestamps # <<>> THEN 0 ELSE sinceLastMessage
     /\ hbReq' = [ hbReq EXCEPT ![i] = "none" ]
     /\ hb' = [ hb EXCEPT ![i] = "Sleep" ]

\* the answer parses to result: a non-empty timestampList moves the offset to
\* that of its last element and refreshes _last_message_time; then the
\* interval wait begins
HbHandle(i, result) ==
  LET timestamps == TimestampsOf(result)
  IN /\ hbOffset' = [ hbOffset EXCEPT ![i] =
                        IF timestamps # <<>>
                          THEN Get(timestamps[Len(timestamps)], "offset",
                                   hbOffset[i])
                          ELSE hbOffset[i] ]
     /\ sinceLastMessage' = IF timestamps # <<>> THEN 0 ELSE sinceLastMessage
     /\ hbReq' = [ hbReq EXCEPT ![i] = "none" ]
     /\ hb' = [ hb EXCEPT ![i] = "Sleep" ]

\* the request returns a body that parses: any answer of the endpoint, or
\* the next one of msgIn when the answers are laid down in advance
HbResponse(i) ==
  /\ hb[i] = "InFlight"
  /\ IF msgPc = "heartbeat"
       THEN /\ served < Len(msgIn)
            /\ HbHandle(i, msgIn[served + 1])
            /\ served' = served + 1
       ELSE /\ \E result \in HeartbeatAnswers : HbHandle(i, result)
            /\ UNCHANGED served
  /\ UNCHANGED << stopEvent, supPc, reconnectDelay, waitDur, topic, session,
                  sessionCookies, paginationCtx, pollRemaining, pollRes, sink,
                  nSessions, firstAttempt, consecFailed, reachedRunning,
                  pollData, clockVars, msgIn, msgOut, msgPc >>

\* the interval wait (ten waits of up to 1 s on the flag) is over, because
\* the interval has passed or the flag woke it: the next iteration
HbSleepEnd(i) ==
  /\ hb[i] = "Sleep"
  /\ hb' = [ hb EXCEPT ![i] = HbIterate ]
  /\ hbReq' = HbRequest(i, hbOffset[i])
  /\ UNCHANGED << stopEvent, supPc, reconnectDelay, waitDur, topic, session,
                  sessionCookies, paginationCtx, sinceLastMessage,
                  pollRemaining, pollRes, sink, nSessions, hbOffset,
                  firstAttempt, consecFailed, reachedRunning, pollData,
                  clockVars, msgVars >>

\* the 5 s wait after a failed cycle is over (timed out or woken): the next
\* iteration
HbErrWaitEnd(i) ==
  /\ hb[i] = "ErrWait"
  /\ hb' = [ hb EXCEPT ![i] = HbIterate ]
  /\ hbReq' = HbRequest(i, hbOffset[i])
  /\ UNCHANGED << stopEvent, supPc, reconnectDelay, waitDur, topic, session,
                  sessionCookies, paginationCtx, sinceLastMessage,
                  pollRemaining, pollRes, sink, nSessions, hbOffset,
                  firstAttempt, consecFailed, reachedRunning, pollData,
                  clockVars, msgVars >>

HbNext(i) ==
  \/ HbTop(i)
  \/ HbFail(i)
  \/ HbResponse(i)
  \/ HbSleepEnd(i)
  \/ HbErrWaitEnd(i)

(***************************************************************************)
(* The running fetcher.                                                    *)
(***************************************************************************)
Next ==
  \/ Start
  \/ Stop
  \/ Tick
  \/ SupNext
  \/ \E i \in Sessions : HbNext(i)

Spec == Init /\ [][Next]_vars

\* every thread that can take a step eventually takes one, and every
\* outstanding request or bootstrap eventually returns; stop() is not forced
FairSpec ==
  /\ Spec
  /\ WF_vars(Start)
  /\ WF_vars(SupNext)
  /\ \A i \in Sessions : WF_vars(HbNext(i))

TypeOK ==
  /\ stopEvent \in BOOLEAN
  /\ supPc \in { "NotStarted", "LoopTop", "Bootstrapping", "NewSession",
                 "UpdateCookies", "SpawnHeartbeat",
                 "ResetState", "PollTop", "Fetching", "PollSleep",
                 "ReconnectWait", "Stopped" }
  /\ reconnectDelay \in 1..MaxReconnectDelay
  /\ waitDur \in 0..MaxReconnectDelay
  /\ paginationCtx \in {"None"} \cup ServerCursors
  /\ nSessions \in 0..MaxSessions
  /\ pollRemaining \in 0..(DefaultDelayMs \div 1000)

(***************************************************************************)
(* Properties of the running fetcher.                                      *)
(***************************************************************************)
RECURSIVE Pow2(_)
Pow2(k) == IF k = 0 THEN 1 ELSE 2 * Pow2(k - 1)

\* a heartbeat thread that has ended while the flag is unset ended itself
\* for staleness: its only other way out is the flag
StaleExit(i) == hb[i] = "Done" /\ ~stopEvent

\* C1: staleness forces a reconnect.  Once the heartbeat loop of the current
\* session has ended itself for staleness while the poll loop runs, the
\* supervisor reaches ReconnectWait (unless stop() intervenes).
StalenessForcesReconnect ==
  (nSessions > 0 /\ StaleExit(nSessions) /\ PollAlive /\ ~stopEvent)
    ~> (supPc = "ReconnectWait" \/ stopEvent)

\* C2: backoff sequence.  After k consecutive failed reconnect attempts the
\* wait in progress is min(2^k, 60) seconds, and never more than 60.
BackoffSequence ==
  supPc = "ReconnectWait" =>
    /\ waitDur = Min(Pow2(consecFailed), MaxReconnectDelay)
    /\ waitDur <= MaxReconnectDelay

\* the wait after six failed reconnect attempts in a row, where 2^6 exceeds the cap
BackoffCapReached ==
  /\ supPc = "ReconnectWait"
  /\ consecFailed = 6
  /\ waitDur = MaxReconnectDelay

\* C3: backoff reset.  The wait that follows an attempt which reached
\* Running is 1 s.
BackoffReset ==
  (supPc = "ReconnectWait" /\ reachedRunning) => waitDur = InitialReconnectDelay

\* the first session to reach Running did so after earlier waits (so after
\* failed attempts), it has ended, and the wait of 1 s is in progress
ResetAfterFailures ==
  /\ supPc = "ReconnectWait"
  /\ reachedRunning
  /\ nSessions = 1
  /\ ~firstAttempt
  /\ waitDur = InitialReconnectDelay

\* C4: sibling cancellation.  At most one heartbeat loop (and one poll loop,
\* which runs on the single connection thread) is alive.
AtMostOneHeartbeat == Cardinality({ i \in Sessions : HbAlive(i) }) <= 1

RejectionIsError ==
  [][ (supPc = "Fetching" /\ pollRes' = "rejected" /\ ~stopEvent)
        => /\ supPc' = "ReconnectWait"
           /\ paginationCtx' = paginationCtx
           /\ sink' = <<>> ]_vars

\* C7: Stopped only by stop().  The connection thread ends only with the
\* flag set; with the flag unset an attempt ends only in ReconnectWait, the
\* wait only in the top of the loop, and the top only in a new bootstrap.
AttemptStates ==
  { "Bootstrapping", "NewSession", "UpdateCookies", "SpawnHeartbeat",
    "ResetState", "PollTop", "Fetching", "PollSleep" }

StoppedOnlyByStop ==
  [][ /\ (supPc # "Stopped" /\ supPc' = "Stopped") => stopEvent
      /\ (~stopEvent /\ supPc \in AttemptStates /\ supPc' \notin AttemptStates)
           => supPc' = "ReconnectWait"
      /\ (supPc = "ReconnectWait" /\ supPc' # supPc) => supPc' = "LoopTop"
      /\ (~stopEvent /\ supPc = "LoopTop" /\ supPc' # supPc)
           => supPc' = "Bootstrapping" ]_vars

\* a session ran and ended, a reconnect attempt failed, and the supervisor
\* is bootstrapping once more, the flag still unset
BootstrappingAgain ==
  /\ supPc = "Bootstrapping"
  /\ ~stopEvent
  /\ nSessions >= 1
  /\ consecFailed >= 1

\* C8: cooperative shutdown.  With the flag set every loop ends; no
\* bootstrap, comment fetch or heartbeat request is started, and the poll
\* loop's sleep runs no further 1 s slice.
AllTerminated == supPc = "Stopped" /\ \A i \in Sessions : ~HbAlive(i)

CooperativeShutdown ==
  /\ stopEvent ~> AllTerminated
  /\ [][ stopEvent =>
           /\ stopEvent'
           /\ (supPc' = "Bootstrapping" => supPc = "Bootstrapping")
           /\ (supPc' = "Fetching" => supPc = "Fetching")
           /\ \A i \in Sessions :
                hb'[i] = "InFlight" => hb[i] = "InFlight"
           /\ supPc = "PollSleep" => pollRemaining' = pollRemaining
           /\ (supPc \in {"PollSleep", "ReconnectWait"} /\ supPc' # supPc)
                => supPc' \in {"PollTop", "LoopTop"} ]_vars

\* everything has ended after stop(); the poll loop's sleep was cut short
\* and two heartbeat loops had been started
ShutDownMidSleep ==
  /\ stopEvent
  /\ AllTerminated
  /\ nSessions = 2
  /\ pollRemaining > 0

\* C15: session data is immutable while loops run.  self.topic, self.session
\* and its cookies are written only while no loop of any session is alive,
\* and a loop builds each request from the topic, session and cookies of its
\* own session's bootstrap (thread i belongs to bootstrap i, the poll loop to
\* the latest one).
SessionDataImmutable ==
  [][ /\ (<< topic, session, sessionCookies >>' # << topic, session, sessionCookies >>)
           => (~PollAlive /\ \A i \in Sessions : ~HbAlive(i))
      /\ \A i \in Sessions :
           (hb[i] # "InFlight" /\ hb'[i] = "InFlight")
             => (topic = i /\ session = i /\ sessionCookies = i)
      /\ (supPc = "PollTop" /\ supPc' = "Fetching")
           => (topic = nSessions /\ session = nSessions
                 /\ sessionCookies = nSessions) ]_vars

\* C16: single writer per field.  The cursor changes only in a step of the
\* poll loop; _last_message_time is refreshed only in a step of the current
\* session's heartbeat loop (the reset that opens a session apart).  The
\* heartbeat offset is a local variable of its thread.
SingleWriter ==
  [][ /\ paginationCtx' # paginationCtx
           => (supPc = "Fetching" /\ supPc' = "PollSleep")
      /\ (sinceLastMessage # 0 /\ sinceLastMessage' = 0)
           => \/ supPc = "ResetState" /\ supPc' = "PollTop"
              \/ /\ nSessions > 0
                 /\ hb[nSessions] = "InFlight"
                 /\ hb'[nSessions] = "Sleep" ]_vars

\* C22: a fresh session is not born stale.  A heartbeat thread ends with the
\* flag unset only by the staleness check; the thread of the newest session
\* does not end so before the supervisor's reset of _last_message_time, the
\* step that brings its session to Running: its check never sees the time
\* stamp of the session before or of the constructor.  (After the reset the
\* age the check sees is at most the time since Running.)
FreshSessionNotStale ==
  [][ \A i \in Sessions :
        (HbAlive(i) /\ hb'[i] = "Done" /\ ~stopEvent)
          => ~(i = nSessions /\ supPc = "ResetState") ]_vars

(***************************************************************************)
(* The handlers on their own: one decoded heartbeat object handed to       *)
(* _process_message, or one comment record handed to _parseChatMsg.        *)
(***************************************************************************)
SampleText == { <<"h", "i">>, <<"A">> \o SongChuLe \o <<"tang", "5">> }

\* decoded objects: every combination of the keys the router looks at
DecodedObjects ==
  { a @@ b @@ c @@ d @@ e @@ f @@ g @@ h :
      a \in OptionalField("viewCountFormat", {<<"1">>}),
      b \in OptionalField("pageViewCount", {<<"2">>}),
      c \in OptionalField("nick", {<<"A">>}),
      d \in OptionalField("flowSourceText", {<<"x">>}),
      e \in OptionalField("subType", {SubTypeChat, SubTypeGift, 7}),
      f \in OptionalField("value", { [ dig |-> 3 ], [ other |-> 1 ],
                                    JsonNumberValue(5) }),
      g \in OptionalField("content", SampleText),
      h \in OptionalField("identify", { [ VIP_USER |-> "1", fanLevel |-> <<"2">> ] }) }

\* comment records: a nickname, then nothing or a gift keyword, then up to
\* MaxLen more characters
TailChars == {"tang", "x", "5", "1", " "}
CommentTexts ==
  { n \o k \o t : n \in {<<>>, <<"A">>},
                  k \in {<<>>} \cup gift_keywords,
                  t \in SeqsUpTo(TailChars, MaxLen) }
CommentRecords ==
  { [ publisherNick |-> <<"A">>, publisherId |-> <<"1">>, content |-> t ] :
      t \in CommentTexts }

RouterInit ==
  SysInit /\ msgIn \in DecodedObjects /\ msgOut = <<>> /\ msgPc = "object" /\ served = 0

\* self._process_message(json_obj)
RouterProcess ==
  /\ msgPc = "object"
  /\ msgOut' = ProcessMessage(msgIn)
  /\ msgPc' = "done"
  /\ UNCHANGED << sysVars, msgIn, served >>

RouterNext == RouterProcess

RouterSpec == RouterInit /\ [][RouterNext]_vars

ChatInit ==
  SysInit /\ msgIn \in CommentRecords /\ msgOut = <<>> /\ msgPc = "comment" /\ served = 0

\* self._parseChatMsg(c) for a record c of the comment feed
ChatProcess ==
  /\ msgPc = "comment"
  /\ msgOut' = ParseChatMsg(msgIn)
  /\ msgPc' = "done"
  /\ UNCHANGED << sysVars, msgIn, served >>

ChatNext == ChatProcess

ChatSpec == ChatInit /\ [][ChatNext]_vars

(***************************************************************************)
(* ProtobufMessageParser.parse_base64_message, from decoded_bytes on.  A   *)
(* byte is written as the character it encodes; "0x80" is a byte above 127. *)
(***************************************************************************)
LBrace == "{"
RBrace == "}"
Quote == "\""
Backslash == "\\"
Colon == ":"
Comma == ","
HighByte == "0x80"

\* for i in range(current_pos, len(decoded_bytes)): if decoded_bytes[i] == 0x7B
\* (positions count from 1 here; 0 stands for the -1 of the source)
RECURSIVE FindJsonStart(_, _)
FindJsonStart(decoded_bytes, i) ==
  IF i > Len(decoded_bytes) THEN 0
  ELSE IF decoded_bytes[i] = LBrace THEN i
  ELSE FindJsonStart(decoded_bytes, i + 1)

\* a variant of FindJsonEnd in which quotes open no string region
RECURSIVE FindJsonEndNoStrings(_, _, _, _, _, _)
FindJsonEndNoStrings(decoded_bytes, json_start, i, brace_count, in_string, escaped) ==
  IF i > Len(decoded_bytes) THEN 0
  ELSE
    LET char == IF decoded_bytes[i] = HighByte THEN "?" ELSE decoded_bytes[i]
        count == IF char = LBrace THEN brace_count + 1
                 ELSE IF char = RBrace THEN brace_count - 1
                 ELSE brace_count
    IN IF count = 0 /\ i > json_start THEN i
       ELSE FindJsonEndNoStrings(decoded_bytes, json_start, i + 1, count,
                                 FALSE, FALSE)

\* for i in range(json_start, len(decoded_bytes)): the brace count outside
\* strings, the string region and the escape state; the first position after
\* json_start at which the count is back to 0, or 0 when there is none
RECURSIVE FindJsonEnd(_, _, _, _, _, _)
FindJsonEnd(decoded_bytes, json_start, i, brace_count, in_string, escaped) ==
  IF i > Len(decoded_bytes) THEN 0
  ELSE
    LET char == IF decoded_bytes[i] = HighByte THEN "?" ELSE decoded_bytes[i]
        count == IF in_string THEN brace_count
                 ELSE IF char = LBrace THEN brace_count + 1
                 ELSE IF char = RBrace THEN brace_count - 1
                 ELSE brace_count
        string == IF ~in_string THEN char = Quote
                  ELSE IF escaped THEN TRUE
                  ELSE IF char = Backslash THEN TRUE
                  ELSE char # Quote
        escape == in_string /\ ~escaped /\ char = Backslash
    IN IF count = 0 /\ i > json_start THEN i
       ELSE FindJsonEnd(decoded_bytes, json_start, i + 1, count, string, escape)

\* json_bytes.decode('utf-8', errors='ignore'): a byte above 127 that stands
\* alone is dropped
DecodeUtf8Ignore(json_bytes) ==
  LET Ascii(b) == b # HighByte IN SelectSeq(json_bytes, Ascii)

(***************************************************************************)
(* json.loads on the characters that occur here: objects, strings with the *)
(* escapes \" and \\, and unsigned integers.  A parsed string is            *)
(* [kind |-> "str"] with its characters, a number [kind |-> "num"], a dict  *)
(* [kind |-> "obj"] with its <<key, value>> pairs in insertion order.  A    *)
(* parse step yields [ok, val, next]: next is the position after the value. *)
(***************************************************************************)
JsonFail == [ ok |-> FALSE, val |-> <<>>, next |-> 0 ]
JsonOk(v, n) == [ ok |-> TRUE, val |-> v, next |-> n ]

JsonStr(chars) == [ kind |-> "str", v |-> chars ]
JsonNum(n) == [ kind |-> "num", v |-> n ]
JsonObj(pairs) == [ kind |-> "obj", v |-> pairs ]

\* d[key] = value on a dict: a key already there keeps its place
DictSet(pairs, key, value) ==
  IF \E j \in 1..Len(pairs) : pairs[j][1] = key
    THEN [ j \in 1..Len(pairs) |->
             IF pairs[j][1] = key THEN <<key, value>> ELSE pairs[j] ]
    ELSE Append(pairs, <<key, value>>)

\* the characters of a string after its opening quote
RECURSIVE JsonStringBody(_, _, _)
JsonStringBody(s, i, acc) ==
  IF i > Len(s) THEN JsonFail
  ELSE IF s[i] = Quote THEN JsonOk(acc, i + 1)
  ELSE IF s[i] = Backslash
    THEN IF i + 1 <= Len(s) /\ s[i + 1] \in {Quote, Backslash}
           THEN JsonStringBody(s, i + 2, Append(acc, s[i + 1]))
           ELSE JsonFail
  ELSE JsonStringBody(s, i + 1, Append(acc, s[i]))

JsonString(s, i) ==
  IF i <= Len(s) /\ s[i] = Quote THEN JsonStringBody(s, i + 1, <<>>)
  ELSE JsonFail

\* an integer: a run of digits without a leading zero
JsonNumber(s, i) ==
  LET run == DigitPrefix(SubSeq(s, i, Len(s)))
  IN IF run = <<>> \/ (Len(run) > 1 /\ run[1] = "0") THEN JsonFail
     ELSE JsonOk(JsonNum(ToInt(run)), i + Len(run))

RECURSIVE JsonValue(_, _)
RECURSIVE JsonMembers(_, _, _)

\* the members of an object after "{" or ","
JsonMembers(s, i, pairs) ==
  LET key == JsonString(s, i)
  IN IF ~key.ok THEN JsonFail
     ELSE IF key.next > Len(s) \/ s[key.next] # Colon THEN JsonFail
     ELSE LET value == JsonValue(s, key.next + 1)
          IN IF ~value.ok THEN JsonFail
             ELSE IF value.next > Len(s) THEN JsonFail
             ELSE IF s[value.next] = Comma
               THEN JsonMembers(s, value.next + 1,
                                DictSet(pairs, key.val, value.val))
             ELSE IF s[value.next] = RBrace
               THEN JsonOk(JsonObj(DictSet(pairs, key.val, value.val)),
                           value.next + 1)
             ELSE JsonFail

JsonValue(s, i) ==
  IF i > Len(s) THEN JsonFail
  ELSE IF s[i] = LBrace
    THEN IF i + 1 <= Len(s) /\ s[i + 1] = RBrace
           THEN JsonOk(JsonObj(<<>>), i + 2)
           ELSE JsonMembers(s, i + 1, <<>>)
  ELSE IF s[i] = Quote
    THEN LET str == JsonString(s, i)
         IN IF str.ok THEN JsonOk(JsonStr(str.val), str.next) ELSE JsonFail
  ELSE IF s[i] \in Digits THEN JsonNumber(s, i)
  ELSE JsonFail

\* json.loads(json_string): the whole text must be one value; ok is FALSE
\* where the source gets a JSONDecodeError
JsonLoads(json_string) ==
  LET r == JsonValue(json_string, 1)
  IN IF r.ok /\ r.next = Len(json_string) + 1 THEN r ELSE JsonFail

\* a variant of DecodeFrom that gives up everything on an unterminated candidate
RECURSIVE DecodeFromDropsAll(_, _, _)
DecodeFromDropsAll(decoded_bytes, current_pos, json_objects) ==
  IF current_pos > Len(decoded_bytes) THEN json_objects
  ELSE
    LET json_start == FindJsonStart(decoded_bytes, current_pos)
        json_end == FindJsonEnd(decoded_bytes, json_start, json_start, 0,
                                FALSE, FALSE)
        loaded == JsonLoads(DecodeUtf8Ignore(
                              SubSeq(decoded_bytes, json_start, json_end)))
    IN IF json_start = 0 THEN json_objects
       ELSE IF json_end = 0 THEN <<>>
       ELSE DecodeFromDropsAll(decoded_bytes, json_end + 1,
                               IF loaded.ok THEN Append(json_objects, loaded.val)
                               ELSE json_objects)

\* while current_pos < len(decoded_bytes): find the next "{", find where its
\* braces balance, load the candidate, go on after it
RECURSIVE DecodeFrom(_, _, _)
DecodeFrom(decoded_bytes, current_pos, json_objects) ==
  IF current_pos > Len(decoded_bytes) THEN json_objects
  ELSE
    LET json_start == FindJsonStart(decoded_bytes, current_pos)
        json_end == FindJsonEnd(decoded_bytes, json_start, json_start, 0,
                                FALSE, FALSE)
        loaded == JsonLoads(DecodeUtf8Ignore(
                              SubSeq(decoded_bytes, json_start, json_end)))
    IN IF json_start = 0 THEN json_objects
       ELSE IF json_end = 0 THEN json_objects
       ELSE DecodeFrom(decoded_bytes, json_end + 1,
                       IF loaded.ok THEN Append(json_objects, loaded.val)
                       ELSE json_objects)

\* the value returned for decoded_bytes
ParseBase64Message(decoded_bytes) ==
  [ json_objects |-> DecodeFrom(decoded_bytes, 1, <<>>),
    raw_bytes |-> decoded_bytes ]

(***************************************************************************)
(* The connection thread against a comment endpoint whose answers are laid *)
(* down in advance: two parsed responses, the first bringing a cursor (or  *)
(* none), the second a cursor, comment records and a delay, each optional. *)
(* No request fails, no bootstrap fails and no heartbeat thread is         *)
(* scheduled.                                                              *)
(***************************************************************************)
ScriptCursors == {"ctx1", "ctx2"}
ScriptComments ==
  SampleComments
    \cup { [ publisherNick |-> <<"C">>, publisherId |-> <<"3">>,
             content |-> <<"y", "o">> ],
           [ publisherNick |-> <<"D">>, publisherId |-> <<"4">>,
             content |-> <<>> ] }

FirstAnswers ==
  { [ ret |-> "SUCCESS", data |-> p @@ ("delay" :> 500) ] :
      p \in OptionalField("paginationContext", ScriptCursors) }
SecondAnswers ==
  { [ ret |-> "SUCCESS", data |-> p @@ c @@ d ] :
      p \in OptionalField("paginationContext", ScriptCursors),
      c \in OptionalField("comments", SeqsUpTo(ScriptComments, MaxRecords)),
      d \in OptionalField("delay", ServerDelays \cup {0, 1000}) }
Scripts == { <<a, b>> : a \in FirstAnswers, b \in SecondAnswers }

PollInit ==
  SysInit /\ msgIn \in Scripts /\ msgOut = <<>> /\ msgPc = "transport" /\ served = 0

PollNext ==
  \/ Start
  \/ Stop
  \/ SupLoopTop
  \/ BootstrapOk
  \/ NewSession
  \/ UpdateCookies
  \/ SpawnHeartbeat
  \/ ResetState
  \/ PollTop
  \/ PollResponse
  \/ PollSleepStep

PollSpec == PollInit /\ [][PollNext]_vars

\* the response the comment endpoint gave last
LastAnswer == msgIn[served]

\* one Chat event per record with non-empty content free of gift keywords,
\* in the order of the records
ChatsOf(comments) ==
  LET Kept(c) == c.content # <<>> /\ ~IsGiftMessage(c.content)
      kept == SelectSeq(comments, Kept)
  IN [ i \in 1..Len(kept) |->
         [ type |-> "Chat", userId |-> kept[i].publisherId,
           userName |-> kept[i].publisherNick, content |-> kept[i].content ] ]

\* C11: the poll loop end to end.  After a successful response the cursor is
\* that response's paginationContext and the events printed are one Chat per
\* record with non-empty, non-gift content, in the records' order; the next
\* request carries that cursor.
PollEndToEnd ==
  /\ [] ( (served > 0 /\ supPc \in {"PollSleep", "PollTop"}) =>
            /\ paginationCtx = Get(LastAnswer.data, "paginationContext", "None")
            /\ sink = ChatsOf(Get(LastAnswer.data, "comments", <<>>)) )
  /\ [][ (served > 0 /\ supPc = "PollTop" /\ supPc' = "Fetching") =>
           /\ pollReq'.topic = topic
           /\ Get(pollReq', "paginationContext", "None")
                = Get(LastAnswer.data, "paginationContext", "None") ]_vars

\* the second response replaced the cursor of the first and brought two
\* records that both became Chat events, in their order
TwoChatsInOrder ==
  /\ served = 2
  /\ supPc = "PollSleep"
  /\ Get(msgIn[1].data, "paginationContext", "None") = "ctx1"
  /\ paginationCtx = "ctx2"
  /\ Len(sink) = 2
  /\ sink[1].userName = <<"A">>
  /\ sink[2].userName = <<"C">>

(***************************************************************************)
(* The decoder on its own: one frame handed to parse_base64_message.  A    *)
(* frame is laid out as up to MaxParts parts: encodings of JSON objects    *)
(* (with the object encoded), filler without "{", candidates whose braces  *)
(* balance but which do not load, and candidates whose braces never        *)
(* balance.                                                                *)
(***************************************************************************)
ObjectParts ==
  { [ kind |-> "object", bytes |-> <<LBrace, RBrace>>, obj |-> JsonObj(<<>>) ],
    [ kind |-> "object",
      bytes |-> <<LBrace, Quote, "a", Quote, Colon, Quote, RBrace, Quote, RBrace>>,
      obj |-> JsonObj(<< << <<"a">>, JsonStr(<<RBrace>>) >> >>) ],
    [ kind |-> "object",
      bytes |-> <<LBrace, Quote, "a", Quote, Colon, LBrace, Quote, LBrace, Quote,
                  Colon, "1", "2", RBrace, RBrace>>,
      obj |-> JsonObj(<< << <<"a">>,
                            JsonObj(<< << <<LBrace>>, JsonNum(12) >> >>) >> >>) ],
    [ kind |-> "object",
      bytes |-> <<LBrace, Quote, Backslash, Quote, Quote, Colon, Quote, Backslash,
                  Backslash, Quote, Comma, Quote, "b", Quote, Colon, "1", RBrace>>,
      obj |-> JsonObj(<< << <<Quote>>, JsonStr(<<Backslash>>) >>,
                         << <<"b">>, JsonNum(1) >> >>) ] }
FillerParts ==
  { [ kind |-> "filler", bytes |-> b, obj |-> <<>> ] :
      b \in { <<"x">>, <<RBrace, Quote>>, <<HighByte, Backslash>> } }
MalformedParts ==
  { [ kind |-> "malformed", bytes |-> b, obj |-> <<>> ] :
      b \in { <<LBrace, "a", RBrace>>,
              <<LBrace, Quote, "a", Quote, Colon, Quote, Backslash, "a", Quote,
                RBrace>> } }
OpenParts ==
  { [ kind |-> "open", bytes |-> b, obj |-> <<>> ] :
      b \in { <<LBrace>>,
              <<LBrace, Quote, "a", Quote, Colon>>,
              <<LBrace, Quote, RBrace>> } }
Parts == ObjectParts \cup FillerParts \cup MalformedParts \cup OpenParts
Frames == SeqsUpTo(Parts, MaxParts)

\* the bytes of a frame
FrameBytes(frame) == Flatten([ i \in 1..Len(frame) |-> frame[i].bytes ])

DecoderInit ==
  SysInit /\ msgIn \in Frames /\ msgOut = <<>> /\ msgPc = "frame" /\ served = 0

\* self.protobuf_parser.parse_base64_message(data_b64)
DecodeFrame ==
  /\ msgPc = "frame"
  /\ msgOut' = ParseBase64Message(FrameBytes(msgIn))
  /\ msgPc' = "done"
  /\ UNCHANGED << sysVars, msgIn, served >>

DecoderNext == DecodeFrame

DecoderSpec == DecoderInit /\ [][DecoderNext]_vars

\* the objects encoded by the parts i..j of a frame, in order
RECURSIVE ObjectsOf(_, _, _)
ObjectsOf(frame, i, j) ==
  IF i > j THEN <<>>
  ELSE (IF frame[i].kind = "object" THEN <<frame[i].obj>> ELSE <<>>)
         \o ObjectsOf(frame, i + 1, j)

KindsOf(frame) == { frame[i].kind : i \in 1..Len(frame) }

\* C12: extraction.  A frame of object encodings and filler decodes to
\* exactly the encoded objects, in order.
Extraction ==
  (msgPc = "done" /\ KindsOf(msgIn) \subseteq {"object", "filler"}) =>
     msgOut.json_objects = ObjectsOf(msgIn, 1, Len(msgIn))

\* a decoded frame of three parts with filler between two objects whose
\* strings hold a brace and escapes
ExtractedAroundFiller ==
  /\ msgPc = "done"
  /\ Len(msgIn) = 3
  /\ msgIn[2].kind = "filler"
  /\ msgIn[1].kind = "object"
  /\ msgIn[3].kind = "object"
  /\ msgOut.json_objects
       = << JsonObj(<< << <<"a">>, JsonStr(<<RBrace>>) >> >>),
            JsonObj(<< << <<Quote>>, JsonStr(<<Backslash>>) >>,
                       << <<"b">>, JsonNum(1) >> >>) >>

\* C13: skip and continue.  With one candidate in the frame that is no valid
\* object (its braces balance but it does not load, or they never balance),
\* every valid object after it is still returned.
SkipAndContinue ==
  (msgPc = "done") =>
     \A m \in 1..Len(msgIn) :
       ( /\ msgIn[m].kind \in {"malformed", "open"}
         /\ \A i \in 1..Len(msgIn) : i # m => msgIn[i].kind = "object" )
       => msgOut.json_objects = ObjectsOf(msgIn, 1, Len(msgIn))

\* C14: trailing fragment.  A frame of valid objects followed by a fragment
\* whose braces never balance decodes, without error, to the objects before
\* the fragment.
TrailingFragment ==
  ( /\ msgPc = "done"
    /\ msgIn # <<>>
    /\ msgIn[Len(msgIn)].kind = "open"
    /\ \A i \in 1..(Len(msgIn) - 1) : msgIn[i].kind = "object" )
  => /\ Has(msgOut, "json_objects")
     /\ msgOut.json_objects = ObjectsOf(msgIn, 1, Len(msgIn) - 1)

\* two objects were returned from a frame that ends in a fragment
FragmentDiscarded ==
  /\ msgPc = "done"
  /\ Len(msgIn) = 3
  /\ msgIn[1].kind = "object"
  /\ msgIn[2].kind = "object"
  /\ msgIn[3].kind = "open"
  /\ Len(msgOut.json_objects) = 2

\* C18: the cursor holds only server-supplied values.  It is null or the
\* paginationContext of some response received, and once set it is never
\* null again, whatever the responses carry.
CursorServerSupplied ==
  /\ [] ( \/ paginationCtx = "None"
          \/ \E k \in 1..served :
               Has(msgIn[k].data, "paginationContext")
                 /\ msgIn[k].data["paginationContext"] = paginationCtx )
  /\ [][ paginationCtx # "None" => paginationCtx' # "None" ]_vars

\* C20: the server-suggested delay is honoured.  When the sleep loop ends
\* with the flag unset, the 1 s sleeps completed add up to at least the
\* delay of the response (6000 ms when it has none).
DelayHonoured ==
  [][ (supPc = "PollSleep" /\ supPc' = "PollTop" /\ ~stopEvent) =>
        pollSlept * 1000 >= Get(LastAnswer.data, "delay", DefaultDelayMs) ]_vars

(***************************************************************************)
(* The heartbeat thread of the first session against a heartbeat endpoint  *)
(* whose answers are laid down in advance: two parsed answers, the first   *)
(* with at most one element in its timestampList, the second with up to    *)
(* MaxStamps, each element with or without an offset.  A request may still *)
(* fail; the connection thread does not move beyond starting the thread.   *)
(***************************************************************************)
ServerOffsets == {"o1", "o2"}
TimestampElements == OptionalField("offset", ServerOffsets)

HeartbeatResults(n) ==
  { <<>> } \cup { [ data |-> [ timestampList |-> tl ] ] :
                    tl \in SeqsUpTo(TimestampElements, n) }
HeartbeatScripts ==
  { <<a, b>> : a \in HeartbeatResults(1), b \in HeartbeatResults(MaxStamps) }

HeartbeatInit ==
  /\ SysInit
  /\ msgIn \in HeartbeatScripts
  /\ msgOut = <<>>
  /\ msgPc = "heartbeat"
  /\ served = 0

HeartbeatNext ==
  \/ Start
  \/ SupLoopTop
  \/ BootstrapOk
  \/ NewSession
  \/ UpdateCookies
  \/ SpawnHeartbeat
  \/ ResetState
  \/ \E i \in Sessions : HbNext(i)

HeartbeatSpec == HeartbeatInit /\ [][HeartbeatNext]_vars

\* C19: heartbeat offset.  The offset of a thread is seeded when the thread
\* starts; an answer with a non-empty timestampList makes it the offset of
\* the list's last element (no change when that element has none); an empty
\* list, a failed cycle and the waits leave it alone; and every request
\* sent carries the offset as it then is.
OffsetAdvance ==
  [][ \A i \in Sessions :
        /\ (hb[i] = "Top" /\ hb'[i] # "Top") => hbOffset'[i] = OffsetSeed
        /\ (hb[i] = "InFlight" /\ hb'[i] = "Sleep") =>
             LET tl == TimestampsOf(msgIn[served'])
             IN hbOffset'[i] =
                  IF tl # <<>> /\ Has(tl[Len(tl)], "offset")
                    THEN tl[Len(tl)]["offset"]
                    ELSE hbOffset[i]
        /\ (hb[i] # "Top" /\ ~(hb[i] = "InFlight" /\ hb'[i] = "Sleep"))
             => hbOffset'[i] = hbOffset[i]
        /\ (hb[i] # "InFlight" /\ hb'[i] = "InFlight")
             => hbReq'[i] = hbOffset'[i] ]_vars

\* the third request carries the offset of the last of two elements, after
\* a first answer that had set another offset
ThirdRequestCarriesLast ==
  /\ served = 2
  /\ TimestampsOf(msgIn[1]) = << [ offset |-> "o1" ] >>
  /\ TimestampsOf(msgIn[2]) = << [ offset |-> "o1" ], [ offset |-> "o2" ] >>
  /\ hb[1] = "InFlight"
  /\ hbReq[1] = "o2"

(***************************************************************************)
(* The first session at the grain of the assignments                       *)
(*   self._last_message_time = time.time()                                 *)
(* in _connect_and_listen, _listen_comments and _sendHeartbeat: the call   *)
(* returns the clock's value, and the attribute is stored in a later step. *)
(* Here every comment response brings comments and every heartbeat answer  *)
(* a non-empty timestampList; nothing fails and stop() is not called.      *)
(***************************************************************************)
ClockAnswers ==
  { res \in SuccessResponses : Get(res.data, "comments", <<>>) # <<>> }

\* the clock moves on
ClockAdvance ==
  /\ now < MaxNow
  /\ now' = now + 1
  /\ UNCHANGED << stopEvent, supPc, reconnectDelay, waitDur, topic, session,
                  sessionCookies, paginationCtx, sinceLastMessage,
                  pollRemaining, pollRes, sink, nSessions, hb, firstAttempt,
                  consecFailed, reachedRunning, pollData, lastMessageTime,
                  connClock, hbClock, hbData, msgVars >>

\* time.time() returns in the connection thread, in _connect_and_listen
\* (after the heartbeat thread was started) or in _listen_comments (the
\* response has come and comments is non-empty)
ConnReadClock ==
  /\ supPc \in {"ResetState", "Fetching"}
  /\ connClock = -1
  /\ connClock' = now
  /\ UNCHANGED << stopEvent, supPc, reconnectDelay, waitDur, topic, session,
                  sessionCookies, paginationCtx, sinceLastMessage,
                  pollRemaining, pollRes, sink, nSessions, hb, firstAttempt,
                  consecFailed, reachedRunning, pollData, now, lastMessageTime,
                  hbClock, hbData, msgVars >>

\* _connect_and_listen stores the value read; self._reconnect_delay = 1
ResetStoreTime ==
  /\ supPc = "ResetState"
  /\ connClock # -1
  /\ lastMessageTime' = connClock
  /\ connClock' = -1
  /\ sinceLastMessage' = 0
  /\ reconnectDelay' = InitialReconnectDelay
  /\ reachedRunning' = TRUE
  /\ consecFailed' = 0
  /\ supPc' = "PollTop"
  /\ UNCHANGED << stopEvent, waitDur, topic, session, sessionCookies,
                  paginationCtx, pollRemaining, pollRes, sink, nSessions, hb,
                  firstAttempt, pollData, now, hbClock, hbData, msgVars >>

\* _listen_comments stores the value read and goes on with the response
PollStoreTime ==
  /\ supPc = "Fetching"
  /\ connClock # -1
  /\ lastMessageTime' = connClock
  /\ connClock' = -1
  /\ \E res \in ClockAnswers : PollHandle(res)
  /\ UNCHANGED << stopEvent, reconnectDelay, waitDur, topic, session,
                  sessionCookies, nSessions, hb, firstAttempt, consecFailed,
                  reachedRunning, now, hbClock, hbData, msgVars >>

\* time.time() returns in heartbeat thread i, whose answer has a non-empty
\* timestampList
HbReadClock(i) ==
  /\ hb[i] = "InFlight"
  /\ hbClock[i] = -1
  /\ hbClock' = [ hbClock EXCEPT ![i] = now ]
  /\ UNCHANGED << stopEvent, supPc, reconnectDelay, waitDur, topic, session,
                  sessionCookies, paginationCtx, sinceLastMessage,
                  pollRemaining, pollRes, sink, nSessions, hb, firstAttempt,
                  consecFailed, reachedRunning, pollData, now, lastMessageTime,
                  connClock, hbData, msgVars >>

\* heartbeat thread i stores the value read; then the interval wait begins
HbStoreTime(i) ==
  /\ hb[i] = "InFlight"
  /\ hbClock[i] # -1
  /\ lastMessageTime' = hbClock[i]
  /\ hbClock' = [ hbClock EXCEPT ![i] = -1 ]
  /\ \E result \in { r \in HeartbeatAnswers : TimestampsOf(r) # <<>> } :
       HbHandle(i, result)
  /\ UNCHANGED << stopEvent, supPc, reconnectDelay, waitDur, topic, session,
                  sessionCookies, paginationCtx, pollRemaining, pollRes, sink,
                  nSessions, firstAttempt, consecFailed, reachedRunning,
                  pollData, now, connClock, msgVars >>

ClockNext ==
  \/ Start
  \/ ClockAdvance
  \/ SupLoopTop
  \/ BootstrapOk
  \/ NewSession
  \/ UpdateCookies
  \/ SpawnHeartbeat
  \/ ConnReadClock
  \/ ResetStoreTime
  \/ PollTop
  \/ PollStoreTime
  \/ PollSleepStep
  \/ \E i \in Sessions : \/ HbTop(i)
                         \/ HbReadClock(i)
                         \/ HbStoreTime(i)
                         \/ HbSleepEnd(i)

ClockSpec == Init /\ [][ClockNext]_vars

\* C17: lastActivityInstant only increases.  No step changes the stored
\* _last_message_time to a smaller value.
LastActivityOnlyIncreases == [][ lastMessageTime' >= lastMessageTime ]_vars

\* C9: classification is total.  An object of none of the recognized shapes
\* yields exactly one Unknown event carrying it, and every processed object
\* yields an event.
Unrecognized(obj) ==
  /\ ~Has(obj, "viewCountFormat") /\ ~Has(obj, "pageViewCount")
  /\ ~(Has(obj, "nick") /\ (Has(obj, "flowSourceText") \/ Has(obj, "subType")))
  /\ ~(Has(obj, "value") /\ Has(obj["value"], "dig"))
  /\ (Has(obj, "subType") => obj["subType"] \notin {SubTypeChat, SubTypeGift})

ClassificationTotal ==
  msgPc = "done" =>
    /\ Unrecognized(msgIn) => msgOut = << [ type |-> "Unknown", raw |-> msgIn ] >>
    /\ msgOut # <<>>

\* C21: router priority order.  The handler that runs for a decoded object
\* is that of the first matching row of the table, in the order Stats,
\* MemberJoin, Like, Chat / Gift, and no other handler runs: the events
\* printed are those of that handler, for every object matching some row.
ValueDig(obj) ==
  /\ Has(obj, "value")
  /\ ~IsNumber(obj["value"])
  /\ Has(obj["value"], "dig")

FirstMatchingRow(obj) ==
  IF Has(obj, "viewCountFormat") \/ Has(obj, "pageViewCount") THEN "Stats"
  ELSE IF Has(obj, "nick") /\ (Has(obj, "flowSourceText") \/ Has(obj, "subType"))
    THEN "MemberJoin"
  ELSE IF ValueDig(obj) THEN "Like"
  ELSE IF Has(obj, "subType") /\ obj["subType"] = SubTypeChat THEN "Chat"
  ELSE IF Has(obj, "subType") /\ obj["subType"] = SubTypeGift THEN "Gift"
  ELSE "none"

RouterPriorityOrder ==
  msgPc = "done" =>
    CASE FirstMatchingRow(msgIn) = "Stats" -> msgOut = ParseRoomUserSeqMsg(msgIn)
      [] FirstMatchingRow(msgIn) = "MemberJoin" -> msgOut = ParseMemberMsg(msgIn)
      [] FirstMatchingRow(msgIn) = "Like" -> msgOut = ParseLikeMsg(msgIn)
      [] FirstMatchingRow(msgIn) = "Chat" -> msgOut = ParseChatMsg(msgIn)
      [] FirstMatchingRow(msgIn) = "Gift" -> msgOut = ParseGiftMsg(msgIn)
      [] OTHER -> TRUE

\* C10: gift re-classification.  A comment record whose content holds a gift
\* keyword yields exactly one Gift event, with the count and the name that
\* the extraction gives.
GiftReclassified ==
  (msgPc = "done" /\ IsGiftMessage(msgIn["content"])) =>
     msgOut = << [ type |-> "Gift",
                   userName |-> msgIn["publisherNick"],
                   giftName |-> ExtractGiftInfo(msgIn["content"]).gift_name,
                   count |-> ExtractGiftInfo(msgIn["content"]).gift_count ] >>

====
